---- MODULE Spec2Model ----
(***************************************************************************)
(* Model of the NeuronBridge precompute dashboard search handler           *)
(* (api/precompute_dashboard.py): run_search and the lookup functions it   *)
(* drives (show_jacs, show_emb, show_nmd_purl, show_pli, check_s3,         *)
(* get_stacks, get_skeletons, get_custom, get_dois,                        *)
(* get_published_versioned, generate_version_pulldown).                    *)
(*                                                                         *)
(* Strings the code inspects character by character (the search key) are   *)
(* sequences of one-character strings.  The stores (MongoDB, DynamoDB, S3) *)
(* are the environment: what a call returns, or that it raises, is chosen  *)
(* nondeterministically at the call.                                       *)
(***************************************************************************)
EXTENDS Integers, Sequences, FiniteSets, TLC

\* ------------------------------------------------------------------ bounds
\* Longest search key of a request.
MaxKeyLen == 2
\* Most records the document store and the wide-column store together return
\* within one request.
MaxRows == 2

\* ------------------------------------------------------- characters, keys
Digits == {"1"}
Alphabet == {"1", "a", "A"}

Keys == UNION {[1..n -> Alphabet] : n \in 1..MaxKeyLen}
\* the keys of the requests followed through the whole pipeline: all digits,
\* lower case, upper case
PipelineKeys == {<<"1">>, <<"a">>, <<"A">>}

STypes == {"Publishing name", "Sample", "Slide code", "Body ID",
           "Neuron type", "Neuron instance"}

FlyLight == {"Publishing name", "Sample", "Slide code"}
NeuronTypes == {"Neuron type", "Neuron instance"}

\* (mutant of IsDigit: only the first character is looked at)
IsDigitFirst(s) == Len(s) > 0 /\ s[1] \in Digits

\* str.isdigit(): non-empty and every character a digit.
IsDigit(s) == Len(s) > 0 /\ \A i \in 1..Len(s) : s[i] \in Digits

CharUpper(c) == IF c = "a" THEN "A" ELSE c
CharLower(c) == IF c = "A" THEN "a" ELSE c

\* (mutant of Upper: the case of every letter is swapped)
SwapCase(s) == [i \in 1..Len(s) |-> IF s[i] = "a" THEN "A" ELSE CharLower(s[i])]

\* str.upper() / str.lower()
Upper(s) == [i \in 1..Len(s) |-> CharUpper(s[i])]
Lower(s) == [i \in 1..Len(s) |-> CharLower(s[i])]

\* pname.split(':')[-1]: what follows the last ':' (the whole string if none).
RECURSIVE SplitLast(_)
SplitLast(s) ==
    IF \E i \in 1..Len(s) : s[i] = ":"
    THEN SplitLast(Tail(s))
    ELSE s

\* (mutant of SampleRef: the prefix is written in lower case)
SampleRefLower(ival) == <<"sample#">> \o ival

RECURSIVE IntOf(_)
\* int(s) for a string of digits
IntOf(s) ==
    IF s = <<>> THEN 0
    ELSE 10 * IntOf(SubSeq(s, 1, Len(s) - 1)) + (IF s[Len(s)] = "1" THEN 1 ELSE 0)

\* "Sample#" + ival
SampleRef(ival) == <<"Sample#">> \o ival

\* ------------------------------------------------------------ Python values
NoneVal == "<None>"
PyNone == [t |-> "none", v |-> <<>>]
PyStr(s) == [t |-> "str", v |-> s]
PyList(l) == [t |-> "list", v |-> l]
\* truth value of a Python None / str / list
Truthy(x) == x.t # "none" /\ Len(x.v) > 0

\* ------------------------------------------------------------------- state
VARIABLES
    pc,        \* position of the request in run_search
    stype,     \* the key type of the request
    rawkey,    \* the key as received
    key,       \* run_search's local `key` (the working key)
    html,      \* run_search's local `html`: the report's items, in order
    pvhtml,    \* run_search's local `pvhtml`
    neuron,    \* run_search's local `neuron`
    release,   \* run_search's local `release`
    pname,     \* run_search's local `pname`
    calls,     \* document-store and wide-column queries issued, in order
    probes,    \* object-storage probes (head_object) issued, in order
    result,    \* what the request returned
    rowsLeft,  \* rows the stores may still return within this request
    loc,       \* locals of the lookup function whose row loop is running
    seen,      \* key type and sections of a report a client received earlier
    pq,        \* the locals of published_query and what it returned
    br,        \* position of before_request, the route asked for, what it returned
    DB,        \* keys of the module's DB dictionary
    DYNAMO,    \* keys of the module's DYNAMO dictionary
    AWS        \* keys of the module's AWS dictionary

vars == <<pc, stype, rawkey, key, html, pvhtml, neuron, release, pname,
          calls, probes, result, rowsLeft, loc, seen, pq, br, DB, DYNAMO, AWS>>

\* ------------------------------------------------------------ report items
\* "<br><div class='hr-with-text'><span>{table} ({cnt})</span></div>" + table
\* (body: the records the rows of the table were built from, where the model
\* follows them one by one)
Section(table, n) == [kind |-> "section", table |-> table, n |-> n, body |-> <<>>]
\* "<span style='textcolor:goldenrod'>... was not found in {table}</span><br>"
NotFound(table) == [kind |-> "notfound", table |-> table, n |-> 0, body |-> <<>>]
\* "... files uploaded to AWS S3 ({len(outs3)})" + one table row per entry
\* (refs: the (file type, key) pairs check_s3 was given, in order; not rendered)
S3Section(table, st) ==
    [kind |-> "s3files", table |-> table, n |-> Len(st.outs3),
     body |-> st.outs3, notfound |-> st.notfound, other |-> st.other,
     refs |-> st.refs]

\* a query with how it ended (out: "raise", "none" or "rows") and, for
\* distinct(), the list it returned (ret)
Call(step, table, field, op, value, out, ret) ==
    [step |-> step, table |-> table, field |-> field, op |-> op, value |-> value,
     out |-> out, ret |-> ret]

NoResult == [kind |-> "none", step |-> 0, fn |-> "", html |-> <<>>]
\* render_template('error.html', title=f"Invalid {stype}", ...)
InvalidReport == [kind |-> "invalid", step |-> 0, fn |-> "", html |-> <<>>]
\* (mutant of ErrorReport: the error page carries the items gathered so far)
ErrorReportPartial(step, fn) ==
    [kind |-> "error", step |-> step, fn |-> fn, html |-> html]

\* render_template('error.html', title=f"Error querying {stype} {key}",
\*                 message=str(err) + traceback.format_exc()):
\* the traceback names the call of run_search the exception came through.
ErrorReport(step, fn) == [kind |-> "error", step |-> step, fn |-> fn, html |-> <<>>]
\* an exception raised outside run_search's try block: the framework's HTTP 500
Unhandled(step, fn) == [kind |-> "crash", step |-> step, fn |-> fn, html |-> <<>>]
\* render_template('general.html', title=f"{stype} {key}", html=html)
SuccessPage(h) == [kind |-> "report", step |-> 0, fn |-> "", html |-> h]

\* --------------------------------------------------------- version resolver
Versions == {"v1", "v2"}
\* coll.distinct("dynamodb_version"): the distinct versions, in the catalog's order
VersionLists ==
    {vs \in UNION {[1..n -> Versions] : n \in 0..Cardinality(Versions)} :
        \A i, j \in 1..Len(vs) : i # j => vs[i] # vs[j]}

\* (mutant of LoopAssign: the loop stops at the first version)
LoopAssignFirst(vs, cur) == IF vs = <<>> THEN cur ELSE Head(vs)

RECURSIVE LoopAssign(_, _)
\* for ver in versions: version = ver
LoopAssign(vs, cur) == IF vs = <<>> THEN cur ELSE LoopAssign(Tail(vs), Head(vs))

\* `not version` for a version that is None, '' or a name
NoVersion(version) == version \in {NoneVal, ""}

\* (mutant of GenerateVersionPulldown: an explicit version always wins)
GenerateVersionPulldownExplicit(versions, version) ==
    IF ~NoVersion(version) THEN [pulldown |-> <<>>, version |-> version]
    ELSE IF versions = <<>> THEN [pulldown |-> <<>>, version |-> ""]
    ELSE [pulldown |-> <<>>, version |-> versions[Len(versions)]]

\* generate_version_pulldown lines 233-247, given what coll.distinct returned
GenerateVersionPulldown(versions, version) ==
    IF versions = <<>> THEN [pulldown |-> <<>>, version |-> ""]
    ELSE IF Len(versions) = 1 THEN [pulldown |-> <<>>, version |-> versions[1]]
    ELSE LET ver == IF NoVersion(version) THEN LoopAssign(versions, version)
                    ELSE version
         IN [pulldown |-> [i \in 1..Len(versions) |->
                              [option |-> versions[i], selected |-> versions[i] = ver]],
             version |-> ver]

\* ------------------------------------------------------------- validation
\* (mutant of InvalidKey: a key holding a digit anywhere is taken for numeric)
InvalidKeyAnyDigit(st, k) ==
    \/ st \in {"Body ID", "Sample"} /\ ~IsDigit(k)
    \/ st \in {"Publishing name", "Slide code", "Neuron type", "Neuron instance"}
       /\ \E i \in 1..Len(k) : k[i] \in Digits

\* run_search lines 993-1000: the two 'Invalid <type>' returns
InvalidKey(st, k) ==
    \/ st \in {"Body ID", "Sample"} /\ ~IsDigit(k)
    \/ st \in {"Publishing name", "Slide code", "Neuron type", "Neuron instance"}
       /\ IsDigit(k)

\* run_search lines 1005-1006
NormalizeKey(st, k) == IF st = "Slide code" THEN Upper(k) ELSE k

\* ------------------------------------------------------ what the stores hold
\* publishing names of records that do not match on the name itself
StoreNames == {<<"p">>, <<"q">>}
\* names the versioned snapshot gives ('' when the record has none)
NeuronNames == {<<"1">>}
\* values matched by {"$regex": f"^{ival}$", "$options": "i"}
CaseVariants(ival) == {s \in [1..Len(ival) -> Alphabet] : Lower(s) = Lower(ival)}
\* values matched by {"$regex": f":{ival}$"}
SuffixMatches(ival) == {<<"x", ":">> \o ival, <<"y", ":">> \o ival}

Absent == "<absent>"
Releases == {"R1", "R2"}

FileTypes == {"f1"}
Buckets == {"b1"}
StorageKeys == {"k1", "k+2"}
\* a manifest entry: file type -> 'https://s3.amazonaws.com/<bucket>/<key>'
Files == [ftype : FileTypes, bucket : Buckets, key : StorageKeys]
\* a record's manifest (row['uploaded'], row['files']), in dictionary order
AssetDicts == {<<>>} \cup {<<f>> : f \in Files}

\* key.replace('+', ' ')
PlusToSpace(k) == IF k = "k+2" THEN "k 2" ELSE k

\* head_object: returns, raises ClientError with code 404, raises ClientError
\* with another code, or raises an exception that is no ClientError
\* (botocore's connection and timeout errors derive from BotoCoreError).
ProbeOutcomes == {"ok", "404", "403", "exc"}

\* ------------------------------------------------------------------ check_s3
\* s3files = {}, outs3 = [], errtype = {'notfound': False, 'other': False}
EmptyS3(step) ==
    [s3files |-> {}, outs3 |-> <<>>, notfound |-> FALSE, other |-> FALSE,
     probes |-> <<>>, raised |-> FALSE, refs |-> <<>>, step |-> step]

\* the entry check_s3 appends for a probe that ended with `o`
ProbeStatus(o) ==
    CASE o = "ok" -> "found" [] o = "404" -> "notfound" [] OTHER -> "other"

RECURSIVE CheckS3NoCache(_, _, _)
\* (mutant of CheckS3: the cache is never consulted)
CheckS3NoCache(uploaded, st, resp) ==
    IF uploaded = <<>> \/ st.raised THEN st
    ELSE LET f == Head(uploaded)
             o == resp[f.key]
             st1 == [st EXCEPT
                       !.refs = Append(@, [ftype |-> f.ftype, key |-> f.key]),
                       !.probes = Append(@, [ftype |-> f.ftype, bucket |-> f.bucket,
                                             key |-> PlusToSpace(f.key),
                                             outcome |-> o, step |-> st.step])]
             st2 == IF o = "exc" THEN [st1 EXCEPT !.raised = TRUE]
                    ELSE [st1 EXCEPT
                            !.notfound = @ \/ o = "404", !.other = @ \/ o = "403",
                            !.outs3 = Append(@, [ftype |-> f.ftype, key |-> f.key,
                                                 status |-> ProbeStatus(o)])]
         IN CheckS3NoCache(Tail(uploaded), st2, resp)

RECURSIVE CheckS3(_, _, _)
\* uploaded: the manifest; st: s3files, outs3 and errtype of the caller, with the
\* probes issued; resp: what object storage answers for each key.
CheckS3(uploaded, st, resp) ==
    IF uploaded = <<>> \/ st.raised THEN st
    ELSE LET f == Head(uploaded)
             k == f.key
             st0 == [st EXCEPT !.refs = Append(@, [ftype |-> f.ftype, key |-> k])]
         IN IF <<f.ftype, k>> \in st.s3files
            THEN CheckS3(Tail(uploaded), st0, resp)
            ELSE LET o == resp[k]
                     st1 == [st0 EXCEPT
                               !.s3files = @ \cup {<<f.ftype, k>>},
                               !.probes = Append(@, [ftype |-> f.ftype,
                                                     bucket |-> f.bucket,
                                                     key |-> PlusToSpace(k),
                                                     outcome |-> o,
                                                     step |-> st.step])]
                     st2 == CASE o = "ok" ->
                                   [st1 EXCEPT !.outs3 = Append(@,
                                       [ftype |-> f.ftype, key |-> k, status |-> "found"])]
                              [] o = "404" ->
                                   [st1 EXCEPT !.notfound = TRUE, !.outs3 = Append(@,
                                       [ftype |-> f.ftype, key |-> k, status |-> "notfound"])]
                              [] o = "403" ->
                                   [st1 EXCEPT !.other = TRUE, !.outs3 = Append(@,
                                       [ftype |-> f.ftype, key |-> k, status |-> "other"])]
                              [] OTHER -> [st1 EXCEPT !.raised = TRUE]
                 IN CheckS3(Tail(uploaded), st2, resp)

\* ------------------------------------------------------------ query shapes
Payload(field, op, value) == [field |-> field, op |-> op, value |-> value]

\* show_jacs lines 338-344
JacsPayload(itype, table, ival) ==
    CASE itype = "Publishing name" -> Payload("publishingName", "iregex", ival)
      [] itype = "Sample" ->
            IF table = "sample" THEN Payload("_id", "int", IntOf(ival))
            ELSE Payload("sampleRef", "eq", SampleRef(ival))
      [] itype = "Slide code" -> Payload("slideCode", "eq", ival)
      [] OTHER -> Payload("", "all", <<>>)

\* show_emb lines 389-392
EmbPayload(itype, ival) ==
    IF itype \in {"Neuron type", "Neuron instance"}
    THEN Payload("neuronType", "eq", ival)
    ELSE Payload("name", "eq", ival)

\* show_nmd_purl lines 427-443
NmdPurlPayload(itype, table, ival) ==
    CASE itype = "Publishing name" -> Payload("publishedName", "iregex", ival)
      [] itype = "Sample" ->
            IF table = "neuronMetadata" THEN Payload("sourceRefId", "eq", SampleRef(ival))
            ELSE Payload("sampleRef", "eq", SampleRef(ival))
      [] itype = "Slide code" -> Payload("slideCode", "eq", ival)
      [] itype = "Neuron type" -> Payload("neuronType", "eq", ival)
      [] itype = "Neuron instance" -> Payload("neuronInstance", "eq", ival)
      [] itype = "Body ID" ->
            IF table = "publishedURL" THEN Payload("publishedName", "suffix", <<":">> \o ival)
            ELSE Payload("publishedName", "eq", ival)
      [] OTHER -> Payload("", "all", <<>>)

\* show_pli lines 590-596
PliPayload(itype, ival) ==
    CASE itype = "Publishing name" -> Payload("name", "eq", ival)
      [] itype = "Sample" -> Payload("sampleRef", "eq", SampleRef(ival))
      [] itype = "Slide code" -> Payload("slideCode", "eq", ival)
      [] OTHER -> Payload("", "all", <<>>)

QueryCall(step, table, p, out) == Call(step, table, p.field, p.op, p.value, out, <<>>)

\* the publishingName of a sample record the payload can match
JacsPubNames(itype, ival) ==
    IF itype = "Publishing name" THEN CaseVariants(ival) ELSE StoreNames \cup {<<>>}

\* the publishedName of a neuronMetadata / publishedURL record the payload can match
PublishedNames(itype, table, ival) ==
    CASE itype = "Publishing name" -> CaseVariants(ival)
      [] itype = "Body ID" ->
            IF table = "publishedURL" THEN SuffixMatches(ival) ELSE {ival}
      [] OTHER -> StoreNames

\* the records the query of show_nmd_purl can return: only publishedURL
\* records carry a release (alpsRelease) and a manifest (uploaded)
NmdPurlRows(itype, table, ival) ==
    [publishedName : PublishedNames(itype, table, ival),
     alpsRelease : IF table = "publishedURL" THEN {Absent, "", "R1"} ELSE {Absent},
     uploaded : IF table = "publishedURL" THEN AssetDicts ELSE {<<>>}]

\* "janelia-neuronbridge-published-{version}"
PublishedTable(version) ==
    CASE version = "v1" -> "janelia-neuronbridge-published-v1"
      [] version = "v2" -> "janelia-neuronbridge-published-v2"
      [] OTHER -> "janelia-neuronbridge-published-"

RECURSIVE FirstName(_)
\* for row in rec: if not name: name = row['name']
FirstName(rows) ==
    IF rows = <<>> THEN <<>>
    ELSE IF Head(rows) # <<>> THEN Head(rows) ELSE FirstName(Tail(rows))

Unset == [t |-> "unset", v |-> <<>>]
NoLoc == [table |-> "", left |-> 0, cnt |-> 0, release |-> NoneVal, pnames |-> <<>>,
          rows |-> <<>>, s3 |-> EmptyS3(0), ddb |-> <<>>]

\* the document-store collections (DB['jacs'][...], DB['neuronbridge'][...])
Collections == {"sample", "image", "emBody", "neuronMetadata", "publishedURL",
                "publishedLMImage", "ddb_published_versioned"}

\* the sections of a page: one per store the page says something about (a table
\* or the not-found notice standing for it), and one per list of checked files
SectionSet(h) ==
    {[store |-> h[i].table, files |-> h[i].kind = "s3files"] : i \in 1..Len(h)}

\* the document-store collections queried so far
Queried(cs) == {cs[i].table : i \in 1..Len(cs)} \cap Collections

\* no report received yet
NoneSeen == [stype |-> "", sections |-> {}, queried |-> {}]

\* the <version> of a /published request: '' by default, a version of the
\* catalog or one the catalog does not hold
VersionArgs == {"", "v1", "v2", "v9"}

\* ddbt.table_status: the table is active, is in another state, or loading the
\* table's description raises
TableStatus == {"ACTIVE", "CREATING", "raise"}

\* published_query before a request: no locals, nothing returned
\* (arg: the version of the route; version: the local `version`)
NoPq == [pc |-> "idle", arg |-> "", versions |-> <<>>, version |-> "", ver |-> "",
         pulldown |-> <<>>, result |-> "", table |-> "", status |-> ""]

\* the routes of the application a request can ask for
Routes == {"/run_search", "/published", "/dois"}

\* before_request between requests
NoBr == [pc |-> "idle", route |-> "", result |-> ""]

\* ------------------------------------------------------------------ actions
Init ==
    /\ pc = "idle"
    /\ stype = "" /\ rawkey = <<>> /\ key = <<>>
    /\ html = <<>> /\ pvhtml = <<>> /\ neuron = <<>> /\ release = ""
    /\ pname = Unset
    /\ calls = <<>> /\ probes = <<>>
    /\ result = NoResult
    /\ rowsLeft = MaxRows
    /\ loc = NoLoc
    /\ seen = NoneSeen
    /\ pq = NoPq
    /\ br = NoBr
    /\ DB = {} /\ DYNAMO = {} /\ AWS = {}

\* a request for /run_search/<key>/<stype> arrives; run_search line 991
NewRequest(keys) ==
    /\ pc = "idle"
    /\ \E st \in STypes, k \in keys :
         /\ stype' = st
         /\ rawkey' = k
         /\ key' = k
    /\ html' = <<>> /\ pvhtml' = <<>> /\ neuron' = <<>> /\ release' = ""
    /\ pc' = "validate"
    /\ UNCHANGED <<pname, calls, probes, result, rowsLeft, loc>>
    /\ UNCHANGED <<seen, pq, br, DB, DYNAMO, AWS>>

\* after_request_func, lines 116-120: the response goes out and the locals of
\* the request are gone
AfterRequest ==
    /\ pc = "done"
    /\ pc' = "idle"
    /\ stype' = "" /\ rawkey' = <<>> /\ key' = <<>>
    /\ html' = <<>> /\ pvhtml' = <<>> /\ neuron' = <<>> /\ release' = ""
    /\ pname' = Unset
    /\ calls' = <<>> /\ probes' = <<>>
    /\ result' = NoResult
    /\ rowsLeft' = MaxRows
    /\ loc' = NoLoc
    /\ UNCHANGED <<seen, pq, br, DB, DYNAMO, AWS>>

\* the request ends with `r`
Return(r) == result' = r /\ pc' = "done"

\* run_search lines 1035-1037: the report page with the items `h`
Finish(h) == Return(SuccessPage(h))

\* (mutant of AfterStep5: with a publishing name, step 4 is entered once more)
AfterStep5Again(pn, h) ==
    IF Truthy(pn) THEN pc' = "step4" /\ result' = result ELSE Finish(h)

\* run_search lines 1029-1030 and 1035-1037, once step 5 has left the items `h`:
\* on to get_dois when pname is true, the report page otherwise
AfterStep5(pn, h) ==
    IF Truthy(pn) THEN pc' = "step6" /\ result' = result ELSE Finish(h)

\* (mutant of RunSearchValidate: the version catalog is read before the key of a
\* neuron type is validated)
RunSearchValidateLate ==
    /\ pc = "validate"
    /\ calls' = (IF stype \in NeuronTypes
                 THEN Append(calls, Call(1, "ddb_published_versioned",
                                         "dynamodb_version", "distinct", <<>>,
                                         "rows", <<>>))
                 ELSE calls)
    /\ IF InvalidKey(stype, key)
       THEN Return(InvalidReport) /\ key' = key
       ELSE /\ result' = result
            /\ IF stype \in NeuronTypes
               THEN pc' = "step1" /\ key' = key
               ELSE pc' = "step2" /\ key' = NormalizeKey(stype, key)
    /\ UNCHANGED <<stype, rawkey, html, pvhtml, neuron, release, pname,
                   probes, rowsLeft, loc>>
    /\ UNCHANGED <<seen, pq, br, DB, DYNAMO, AWS>>

\* run_search lines 992-1000, and 1005-1006 for the types without step 1
RunSearchValidate ==
    /\ pc = "validate"
    /\ IF InvalidKey(stype, key)
       THEN Return(InvalidReport) /\ key' = key
       ELSE /\ result' = result
            /\ IF stype \in NeuronTypes
               THEN pc' = "step1" /\ key' = key
               ELSE pc' = "step2" /\ key' = NormalizeKey(stype, key)
    /\ UNCHANGED <<stype, rawkey, html, pvhtml, neuron, release, pname, calls,
                   probes, rowsLeft, loc>>
    /\ UNCHANGED <<seen, pq, br, DB, DYNAMO, AWS>>

\* run_search lines 1001-1006 with get_published_versioned and get_dynamodb
GetPublishedVersioned ==
    /\ pc = "step1"
    /\ LET c1(out, ret) == Call(1, "ddb_published_versioned", "dynamodb_version",
                                "distinct", <<>>, out, ret)
       IN
       \/ \* coll.distinct raises: nothing catches it
          /\ calls' = Append(calls, c1("raise", <<>>))
          /\ Return(Unhandled(1, "generate_version_pulldown"))
          /\ UNCHANGED <<key, pvhtml, neuron, rowsLeft>>
       \/ \E vs \in VersionLists :
            LET version == GenerateVersionPulldown(vs, NoneVal).version
                tbl == PublishedTable(version)
                c2(out) == Call(1, tbl, "searchKey", "eq", SplitLast(Lower(key)),
                                out, <<>>)
                log(out) == calls \o <<c1("rows", vs), c2(out)>>
            IN \/ \* the query raises: except Exception: return "", ""
                  /\ calls' = log("raise")
                  /\ pvhtml' = <<>> /\ neuron' = <<>>
                  /\ key' = NormalizeKey(stype, key)
                  /\ pc' = "step2" /\ result' = result
                  /\ rowsLeft' = rowsLeft
               \/ \* no items: get_dynamodb returns None, `for row in rec` raises
                  /\ calls' = log("none")
                  /\ Return(Unhandled(1, "get_published_versioned"))
                  /\ UNCHANGED <<key, pvhtml, neuron, rowsLeft>>
               \/ \E n \in 1..rowsLeft :
                  \E rows \in [1..n -> NeuronNames \cup {<<>>}] :
                     LET name == FirstName(rows)
                     IN /\ calls' = log("rows")
                        /\ pvhtml' = <<Section(tbl, n)>>
                        /\ neuron' = name
                        /\ key' = NormalizeKey(stype, IF name # <<>> THEN name ELSE key)
                        /\ pc' = "step2" /\ result' = result
                        /\ rowsLeft' = rowsLeft - n
    /\ UNCHANGED <<stype, rawkey, html, release, pname, probes, loc>>
    /\ UNCHANGED <<seen, pq, br, DB, DYNAMO, AWS>>

\* run_search lines 1009-1013 with show_jacs
ShowJacs(table) ==
    /\ stype \in FlyLight
    /\ pc = (IF table = "sample" THEN "step2" ELSE "step2b")
    /\ \E out \in {"raise", "none", "rows"} :
         calls' = Append(calls, QueryCall(2, table, JacsPayload(stype, table, key), out))
    /\ LET out == calls'[Len(calls')].out IN
       \/ \* count_documents or find raises
          /\ out = "raise"
          /\ Return(ErrorReport(2, "show_jacs"))
          /\ UNCHANGED <<key, html, pname, rowsLeft>>
       \/ \* no document
          /\ out = "none"
          /\ html' = Append(html, NotFound(table))
          /\ pname' = (IF table = "sample" THEN PyStr(<<>>) ELSE pname)
          /\ pc' = (IF table = "sample" THEN "step2b" ELSE "step3")
          /\ UNCHANGED <<key, result, rowsLeft>>
       \/ \E cnt \in 1..rowsLeft :
          \E last \in JacsPubNames(stype, key) :
             /\ out = "rows"
             /\ html' = Append(html, Section(table, cnt))
             /\ rowsLeft' = rowsLeft - cnt
             /\ result' = result
             /\ IF table = "sample"
                THEN /\ pname' = PyStr(last)
                     /\ key' = (IF stype = "Publishing name" /\ last # <<>>
                                THEN last ELSE key)
                     /\ pc' = "step2b"
                ELSE /\ pname' = pname /\ key' = key
                     /\ pc' = "step3"
    /\ UNCHANGED <<stype, rawkey, pvhtml, neuron, release, probes, loc>>
    /\ UNCHANGED <<seen, pq, br, DB, DYNAMO, AWS>>

\* (mutant of ShowEmb: a body that is not found skips the neuronMetadata lookup)
ShowEmbSkipsOnMiss ==
    /\ stype \notin FlyLight
    /\ pc = "step2"
    /\ \E out \in {"raise", "none", "rows"} :
         calls' = Append(calls, QueryCall(2, "emBody", EmbPayload(stype, key), out))
    /\ LET out == calls'[Len(calls')].out IN
       \/ /\ out = "raise"
          /\ Return(ErrorReport(2, "show_emb"))
          /\ UNCHANGED <<html, rowsLeft>>
       \/ /\ out = "none"
          /\ html' = Append(html, NotFound("emBody"))
          /\ pc' = "step4"
          /\ UNCHANGED <<result, rowsLeft>>
       \/ \E cnt \in 1..rowsLeft :
             /\ out = "rows"
             /\ html' = Append(html, Section("emBody", cnt))
             /\ rowsLeft' = rowsLeft - cnt
             /\ pc' = "step3"
             /\ result' = result
    /\ UNCHANGED <<stype, rawkey, key, pvhtml, neuron, release, pname, probes, loc>>
    /\ UNCHANGED <<seen, pq, br, DB, DYNAMO, AWS>>

\* run_search line 1015 with show_emb
ShowEmb ==
    /\ stype \notin FlyLight
    /\ pc = "step2"
    /\ \E out \in {"raise", "none", "rows"} :
         calls' = Append(calls, QueryCall(2, "emBody", EmbPayload(stype, key), out))
    /\ LET out == calls'[Len(calls')].out IN
       \/ /\ out = "raise"
          /\ Return(ErrorReport(2, "show_emb"))
          /\ UNCHANGED <<html, rowsLeft>>
       \/ /\ out = "none"
          /\ html' = Append(html, NotFound("emBody"))
          /\ pc' = "step3"
          /\ UNCHANGED <<result, rowsLeft>>
       \/ \E cnt \in 1..rowsLeft :
             /\ out = "rows"
             /\ html' = Append(html, Section("emBody", cnt))
             /\ rowsLeft' = rowsLeft - cnt
             /\ pc' = "step3"
             /\ result' = result
    /\ UNCHANGED <<stype, rawkey, key, pvhtml, neuron, release, pname, probes, loc>>
    /\ UNCHANGED <<seen, pq, br, DB, DYNAMO, AWS>>

StepOf(table) == IF table = "neuronMetadata" THEN 3 ELSE 4

\* run_search lines 1016-1017 / 1022-1023: show_nmd_purl up to its row loop
ShowNmdPurlQuery(table) ==
    /\ pc = (IF table = "neuronMetadata" THEN "step3" ELSE "step4")
    /\ table = "publishedURL" => stype \notin NeuronTypes
    /\ \E out \in {"raise", "none", "rows"} :
         calls' = Append(calls, QueryCall(StepOf(table), table,
                                          NmdPurlPayload(stype, table, key), out))
    /\ LET out == calls'[Len(calls')].out IN
       \/ /\ out = "raise"
          /\ Return(ErrorReport(StepOf(table), "show_nmd_purl"))
          /\ UNCHANGED <<html, release, pname, rowsLeft, loc>>
       \/ \* no document: return notice, None, None
          /\ out = "none"
          /\ html' = Append(html, NotFound(table))
          /\ IF table = "publishedURL"
             THEN release' = NoneVal /\ pname' = PyNone /\ pc' = "step5"
             ELSE release' = release /\ pname' = pname /\ pc' = "step4"
          /\ UNCHANGED <<result, rowsLeft, loc>>
       \/ \E cnt \in 1..rowsLeft :
             /\ out = "rows"
             /\ loc' = [NoLoc EXCEPT !.table = table, !.left = cnt, !.cnt = cnt]
             /\ rowsLeft' = rowsLeft - cnt
             /\ pc' = "nmd_rows"
             /\ UNCHANGED <<html, release, pname, result>>
    /\ UNCHANGED <<stype, rawkey, key, pvhtml, neuron, probes>>
    /\ UNCHANGED <<seen, pq, br, DB, DYNAMO, AWS>>

\* (mutant of AddName: every record's name is appended)
AddNameAlways(pnames, name) == Append(pnames, name)

\* show_nmd_purl lines 482-483:
\* if row['publishedName'] not in pname: pname.append(row['publishedName'])
AddName(pnames, name) ==
    IF \E i \in 1..Len(pnames) : pnames[i] = name THEN pnames
    ELSE Append(pnames, name)

\* show_nmd_purl lines 472-504: one pass of the row loop; after the last row the
\* object-storage check of that row's manifest, the return and the assignment
\* in run_search
ShowNmdPurlRow ==
    /\ pc = "nmd_rows"
    /\ \E row \in NmdPurlRows(stype, loc.table, key) :
       \E resp \in [StorageKeys -> ProbeOutcomes] :
         LET rel == IF row.alpsRelease # Absent /\ loc.release = NoneVal
                    THEN row.alpsRelease ELSE loc.release
             pn == AddName(loc.pnames, row.publishedName)
             rows2 == Append(loc.rows, [publishedName |-> row.publishedName,
                                        alpsRelease |-> row.alpsRelease])
             sec == [Section(loc.table, loc.cnt) EXCEPT !.body = rows2]
             s3 == CheckS3(row.uploaded, EmptyS3(4), resp)
             nextpc == IF loc.table = "publishedURL" THEN "step5" ELSE "step4"
             rel2 == IF loc.table = "publishedURL" THEN rel ELSE release
             pn2 == IF loc.table = "publishedURL" THEN PyList(pn) ELSE pname
         IN IF loc.left > 1
            THEN /\ loc' = [loc EXCEPT !.left = @ - 1, !.release = rel, !.pnames = pn,
                                      !.rows = rows2]
                 /\ UNCHANGED <<pc, html, release, pname, probes, result>>
            ELSE /\ loc' = NoLoc
                 /\ IF loc.table # "publishedURL" \/ row.uploaded = <<>>
                    THEN /\ html' = Append(html, sec)
                         /\ release' = rel2 /\ pname' = pn2
                         /\ pc' = nextpc
                         /\ UNCHANGED <<probes, result>>
                    ELSE /\ probes' = probes \o s3.probes
                         /\ IF s3.raised
                            THEN /\ Return(ErrorReport(4, "show_nmd_purl"))
                                 /\ UNCHANGED <<html, release, pname>>
                            ELSE /\ html' = html \o <<sec, S3Section(loc.table, s3)>>
                                 /\ release' = rel2 /\ pname' = pn2
                                 /\ pc' = nextpc
                                 /\ result' = result
    /\ UNCHANGED <<stype, rawkey, key, pvhtml, neuron, calls, rowsLeft>>
    /\ UNCHANGED <<seen, pq, br, DB, DYNAMO, AWS>>

\* run_search lines 1018-1020: the neuron types reuse the step-1 section
ReusePublished ==
    /\ pc = "step4"
    /\ stype \in NeuronTypes
    /\ pname' = PyStr(<<>>)
    /\ html' = html \o pvhtml
    /\ Finish(html')
    /\ UNCHANGED <<stype, rawkey, key, pvhtml, neuron, release, calls, probes,
                   rowsLeft, loc>>
    /\ UNCHANGED <<seen, pq, br, DB, DYNAMO, AWS>>

\* (slideCode, objective, alignmentSpace) of a publishedLMImage record
Triples == {"S1-20x-JRC", "S1-63x-JRC"}
\* '-'.join([row['slideCode'], row['objective'], row['alignmentSpace']]).lower()
DdbKey(t) == IF t = "S1-20x-JRC" THEN "s1-20x-jrc" ELSE "s1-63x-jrc"

PliRows == [releaseName : Releases, files : AssetDicts, triple : Triples]

StacksTable == "janelia-neuronbridge-published-stacks"
SkeletonsTable == "janelia-neuronbridge-published-skeletons"
CustomTable == "janelia-neuronbridge-custom-annotations"
DoiTable == "janelia-neuronbridge-publishing-doi"

\* (mutant of ReleaseSet: an empty release counts as a release)
ReleaseSetEmpty(rel) == rel # NoneVal

\* `release` is neither None nor ''
ReleaseSet(rel) == rel \notin {NoneVal, ""}

\* run_search line 1025: show_pli up to its row loop
ShowPliQuery ==
    /\ pc = "step5"
    /\ stype \in FlyLight
    /\ \E out \in {"raise", "none", "rows"} :
         calls' = Append(calls, QueryCall(5, "publishedLMImage",
                                          PliPayload(stype, key), out))
    /\ LET out == calls'[Len(calls')].out IN
       \/ /\ out = "raise"
          /\ Return(ErrorReport(5, "show_pli"))
          /\ UNCHANGED <<html, rowsLeft, loc>>
       \/ /\ out = "none"
          /\ html' = Append(html, NotFound("publishedLMImage"))
          /\ AfterStep5(pname, html')
          /\ UNCHANGED <<rowsLeft, loc>>
       \/ \E cnt \in 1..rowsLeft :
             /\ out = "rows"
             /\ loc' = [NoLoc EXCEPT !.table = "publishedLMImage", !.left = cnt,
                                     !.cnt = cnt, !.s3 = EmptyS3(5)]
             /\ rowsLeft' = rowsLeft - cnt
             /\ pc' = "pli_rows"
             /\ UNCHANGED <<html, result>>
    /\ UNCHANGED <<stype, rawkey, key, pvhtml, neuron, release, pname, probes>>
    /\ UNCHANGED <<seen, pq, br, DB, DYNAMO, AWS>>

\* show_pli lines 616-654: one pass of the row loop (the row, check_s3 over its
\* files, get_stacks for its triple); after the last row the rest of show_pli
ShowPliRow ==
    /\ pc = "pli_rows"
    /\ \E row \in PliRows :
       \E resp \in [StorageKeys -> ProbeOutcomes] :
       \E so \in {"raise", "none"} \cup (IF rowsLeft > 0 THEN {"R1"} ELSE {}) :
         LET flagged == /\ stype # "Publishing name"
                        /\ ReleaseSet(release)
                        /\ row.releaseName # release
             rows2 == Append(loc.rows, [releaseName |-> row.releaseName,
                                        flagged |-> flagged])
             s3 == CheckS3(row.files, [loc.s3 EXCEPT !.probes = <<>>], resp)
             ddbkey == DdbKey(row.triple)
             cached == \E i \in 1..Len(loc.ddb) : loc.ddb[i].key = ddbkey
             ddb2 == IF cached \/ so \in {"raise", "none"} THEN loc.ddb
                     ELSE Append(loc.ddb, [key |-> ddbkey, release |-> so])
             sec == [Section("publishedLMImage", loc.cnt) EXCEPT !.body = rows2]
             tail == IF ddb2 = <<>> THEN <<>>
                     ELSE <<Section(StacksTable, Len(ddb2))>>
             used == IF ~s3.raised /\ ~cached /\ so = "R1" THEN 1 ELSE 0
         IN /\ probes' = probes \o s3.probes
            /\ rowsLeft' = rowsLeft - used
            /\ IF s3.raised
               THEN /\ Return(ErrorReport(5, "show_pli"))
                    /\ UNCHANGED <<html, calls, loc>>
               ELSE /\ calls' = (IF cached THEN calls
                                 ELSE Append(calls, Call(5, StacksTable, "itemType",
                                        "eq", <<ddbkey>>,
                                        IF so = "R1" THEN "rows" ELSE so, <<>>)))
                    /\ IF ~cached /\ so = "raise"
                       THEN /\ Return(ErrorReport(5, "show_pli"))
                            /\ UNCHANGED <<html, loc>>
                       ELSE IF loc.left > 1
                               THEN /\ loc' = [loc EXCEPT !.left = @ - 1,
                                                 !.rows = rows2, !.s3 = s3,
                                                 !.ddb = ddb2]
                                    /\ UNCHANGED <<pc, html, result>>
                               ELSE /\ loc' = NoLoc
                                    /\ html' = html \o <<sec,
                                          S3Section("publishedLMImage", s3)>> \o tail
                                    /\ AfterStep5(pname, html')
    /\ UNCHANGED <<stype, rawkey, key, pvhtml, neuron, release, pname>>
    /\ UNCHANGED <<seen, pq, br, DB, DYNAMO, AWS>>

\* run_search line 1027 with get_skeletons
GetSkeletons ==
    /\ pc = "step5"
    /\ stype = "Body ID"
    /\ IF pname.t # "list"
       THEN \* pname[0] on None raises TypeError inside the try block
            /\ Return(ErrorReport(5, "run_search"))
            /\ UNCHANGED <<html, calls, rowsLeft>>
       ELSE /\ \E out \in {"raise", "none", "rows"} :
                 calls' = Append(calls, Call(5, SkeletonsTable, "publishedName", "eq",
                                             pname.v[1], out, <<>>))
            /\ LET out == calls'[Len(calls')].out IN
               \/ /\ out = "raise"
                  /\ Return(ErrorReport(5, "get_skeletons"))
                  /\ UNCHANGED <<html, rowsLeft>>
               \/ /\ out = "none"
                  /\ pc' = "step5b"
                  /\ UNCHANGED <<html, result, rowsLeft>>
               \/ /\ out = "rows"
                  /\ rowsLeft > 0
                  /\ rowsLeft' = rowsLeft - 1
                  /\ html' = Append(html, Section(SkeletonsTable, 1))
                  /\ pc' = "step5b" /\ result' = result
    /\ UNCHANGED <<stype, rawkey, key, pvhtml, neuron, release, pname, probes, loc>>
    /\ UNCHANGED <<seen, pq, br, DB, DYNAMO, AWS>>

\* run_search line 1028 with get_custom
GetCustom ==
    /\ pc = "step5b"
    /\ \E out \in {"raise", "none", "rows"} :
         calls' = Append(calls, Call(5, CustomTable, "searchKey", "eq", Lower(key),
                                     out, <<>>))
    /\ LET out == calls'[Len(calls')].out IN
       \/ /\ out = "raise"
          /\ Return(ErrorReport(5, "get_custom"))
          /\ UNCHANGED <<html, rowsLeft>>
       \/ /\ out = "none"
          /\ html' = html
          /\ AfterStep5(pname, html')
          /\ rowsLeft' = rowsLeft
       \/ /\ out = "rows"
          /\ rowsLeft > 0
          /\ rowsLeft' = rowsLeft - 1
          /\ html' = Append(html, Section(CustomTable, 1))
          /\ AfterStep5(pname, html')
    /\ UNCHANGED <<stype, rawkey, key, pvhtml, neuron, release, pname, probes, loc>>
    /\ UNCHANGED <<seen, pq, br, DB, DYNAMO, AWS>>

\* get_dynamodb(table, 'name', pn): raises, finds no item, or returns the item
DoiOutcomes == {"raise", "none", "rows"}

\* run_search lines 1029-1030 with get_dois
GetDois ==
    /\ pc = "step6"
    /\ \E resp \in [1..Len(pname.v) -> DoiOutcomes] :
         LET raised == {i \in 1..Len(pname.v) : resp[i] = "raise"}
             m == IF raised = {} THEN Len(pname.v)
                  ELSE CHOOSE i \in raised : \A j \in raised : i <= j
             out == Cardinality({i \in 1..m : resp[i] = "rows"})
         IN /\ out <= rowsLeft
            /\ rowsLeft' = rowsLeft - out
            /\ calls' = calls \o [i \in 1..m |->
                                    Call(6, DoiTable, "name", "eq", pname.v[i],
                                         resp[i], <<>>)]
            /\ IF raised # {}
               THEN Return(ErrorReport(6, "get_dois")) /\ html' = html
               ELSE /\ html' = (IF out = 0 THEN html
                                ELSE Append(html, Section(DoiTable, out)))
                    /\ Finish(html')
    /\ UNCHANGED <<stype, rawkey, key, pvhtml, neuron, release, pname, probes, loc>>
    /\ UNCHANGED <<seen, pq, br, DB, DYNAMO, AWS>>

Next ==
    \/ NewRequest(PipelineKeys)
    \/ AfterRequest
    \/ RunSearchValidate
    \/ GetPublishedVersioned
    \/ ShowJacs("sample")
    \/ ShowJacs("image")
    \/ ShowEmb
    \/ ShowNmdPurlQuery("neuronMetadata")
    \/ ShowNmdPurlQuery("publishedURL")
    \/ ShowNmdPurlRow
    \/ ReusePublished
    \/ ShowPliQuery
    \/ ShowPliRow
    \/ GetSkeletons
    \/ GetCustom
    \/ GetDois

Spec == Init /\ [][Next]_vars

\* ---------------------------------------------------------- published_query
RunSearchIdle ==
    UNCHANGED <<pc, stype, rawkey, key, html, pvhtml, neuron, release, pname,
                calls, probes, result, rowsLeft, loc, seen, br, DB, DYNAMO, AWS>>

\* a request for /published or /published/<version> arrives
PublishedRequest ==
    /\ pq.pc = "idle"
    /\ \E v \in VersionArgs :
         pq' = [NoPq EXCEPT !.pc = "resolve", !.arg = v, !.version = v]
    /\ RunSearchIdle

\* published_query lines 854-860 with generate_version_pulldown
PublishedResolve ==
    /\ pq.pc = "resolve"
    /\ \/ \* coll.distinct raises: nothing catches it
          pq' = [pq EXCEPT !.pc = "done", !.result = "crash"]
       \/ \E vs \in VersionLists :
            LET r == GenerateVersionPulldown(vs, pq.version)
                version == IF r.version # "" /\ NoVersion(pq.version)
                           THEN r.version ELSE pq.version
            IN pq' = [pq EXCEPT !.versions = vs, !.ver = r.version,
                                !.pulldown = r.pulldown, !.version = version,
                                !.pc = IF version # "" THEN "find" ELSE "done",
                                !.result = IF version # "" THEN "" ELSE "home"]
    /\ RunSearchIdle

\* published_query lines 861-867: coll.find_one({"dynamodb_version": version})
PublishedFind ==
    /\ pq.pc = "find"
    /\ \/ pq' = [pq EXCEPT !.pc = "done", !.result = "crash"]
       \/ pq' = [pq EXCEPT !.pc = "done", !.result = "Version not found"]
       \/ pq' = [pq EXCEPT !.pc = "table", !.table = PublishedTable(pq.version)]
    /\ RunSearchIdle

\* published_query lines 868-884 with ddb_table
PublishedDdbTable ==
    /\ pq.pc = "table"
    /\ \E st \in TableStatus :
         pq' = [pq EXCEPT !.pc = "done", !.status = st,
                          !.result = IF st = "raise" THEN "crash" ELSE "home"]
    /\ RunSearchIdle

\* after_request_func: the response of published_query goes out
PublishedDone ==
    /\ pq.pc = "done"
    /\ pq' = NoPq
    /\ RunSearchIdle

NextPublished ==
    \/ PublishedRequest
    \/ PublishedResolve
    \/ PublishedFind
    \/ PublishedDdbTable
    \/ PublishedDone

SpecPublished == Init /\ [][NextPublished]_vars

\* ----------------------------------------------------------- before_request
HandlersIdle ==
    UNCHANGED <<pc, stype, rawkey, key, html, pvhtml, neuron, release, pname,
                calls, probes, result, rowsLeft, loc, seen, pq>>

\* before_request returns the error page titled `title`: the handler is not run
BrError(title) == br' = [br EXCEPT !.pc = "done", !.result = title]

\* a request arrives and before_request starts
BrArrive ==
    /\ br.pc = "idle"
    /\ \E r \in Routes : br' = [NoBr EXCEPT !.pc = "guard", !.route = r]
    /\ UNCHANGED <<DB, DYNAMO, AWS>>
    /\ HandlersIdle

\* before_request lines 58-66: the guard and JRC.get_config("databases")
BrGuard ==
    /\ br.pc = "guard"
    /\ IF "neuronbridge" \notin DB
       THEN \/ BrError("Invalid or missing response from Configuration server")
            \/ br' = [br EXCEPT !.pc = "jacs"]
       ELSE br' = [br EXCEPT !.pc = "config"]
    /\ UNCHANGED <<DB, DYNAMO, AWS>>
    /\ HandlersIdle

\* before_request lines 67-77: one pass of `for dbname in ('jacs', 'neuronbridge')`
BrConnect(dbname) ==
    /\ br.pc = dbname
    /\ \/ /\ BrError("Could not connect to MongoDB")
          /\ DB' = DB
       \/ /\ DB' = DB \cup {dbname}
          /\ br' = [br EXCEPT !.pc = IF dbname = "jacs" THEN "neuronbridge"
                                     ELSE "dynamo"]
    /\ UNCHANGED <<DYNAMO, AWS>>
    /\ HandlersIdle

\* before_request lines 78-86: boto3.client and boto3.resource in one try
BrDynamo ==
    /\ br.pc = "dynamo"
    /\ \/ /\ BrError("Could not connect to DynamoDB")
          /\ DYNAMO' = DYNAMO
       \/ /\ BrError("Could not connect to DynamoDB")
          /\ DYNAMO' = DYNAMO \cup {"client"}
       \/ /\ DYNAMO' = DYNAMO \cup {"client", "resource"}
          /\ br' = [br EXCEPT !.pc = "config"]
    /\ UNCHANGED <<DB, AWS>>
    /\ HandlersIdle

\* before_request lines 87-95: the configuration is read on every request
BrConfig ==
    /\ br.pc = "config"
    /\ \/ BrError("Invalid or missing response from Configuration server")
       \/ br' = [br EXCEPT !.pc = "aws"]
    /\ UNCHANGED <<DB, DYNAMO, AWS>>
    /\ HandlersIdle

\* before_request lines 96-111: assume_role and the S3 client, on every request
BrAws ==
    /\ br.pc = "aws"
    /\ \/ /\ BrError("Could not connect to AWS")
          /\ AWS' = AWS
       \/ /\ AWS' = AWS \cup {"client"}
          /\ br' = [br EXCEPT !.pc = "handler"]
    /\ UNCHANGED <<DB, DYNAMO>>
    /\ HandlersIdle

\* before_request returned None: the handler of the route runs; it raises
\* KeyError when it looks up a handle that is not there
BrHandler ==
    /\ br.pc = "handler"
    /\ br' = [br EXCEPT !.pc = "done",
                        !.result = IF {"jacs", "neuronbridge"} \subseteq DB
                                      /\ {"client", "resource"} \subseteq DYNAMO
                                   THEN "handled" ELSE "KeyError"]
    /\ UNCHANGED <<DB, DYNAMO, AWS>>
    /\ HandlersIdle

\* after_request_func: the response goes out; the dictionaries stay
BrDone ==
    /\ br.pc = "done"
    /\ br' = NoBr
    /\ UNCHANGED <<DB, DYNAMO, AWS>>
    /\ HandlersIdle

NextBefore ==
    \/ BrArrive
    \/ BrGuard
    \/ BrConnect("jacs")
    \/ BrConnect("neuronbridge")
    \/ BrDynamo
    \/ BrConfig
    \/ BrAws
    \/ BrHandler
    \/ BrDone

SpecBefore == Init /\ [][NextBefore]_vars

\* run_search lines 1035-1037: a client keeps the first report it receives
Remember ==
    /\ pc = "done"
    /\ result.kind = "report"
    /\ seen = NoneSeen
    /\ seen' = [stype |-> stype, sections |-> SectionSet(result.html),
                queried |-> Queried(calls)]
    /\ UNCHANGED <<pc, stype, rawkey, key, html, pvhtml, neuron, release, pname,
                   calls, probes, result, rowsLeft, loc, pq, br, DB, DYNAMO, AWS>>

\* a request that, once a report is kept, asks for the key type of that report
SameTypeRequest(keys) ==
    /\ NewRequest(keys)
    /\ seen # NoneSeen => stype' = seen.stype

\* requests one after the other, with the first report kept for comparison
NextSections ==
    \/ SameTypeRequest(PipelineKeys)
    \/ AfterRequest
    \/ RunSearchValidate
    \/ GetPublishedVersioned
    \/ ShowJacs("sample")
    \/ ShowJacs("image")
    \/ ShowEmb
    \/ ShowNmdPurlQuery("neuronMetadata")
    \/ ShowNmdPurlQuery("publishedURL")
    \/ ShowNmdPurlRow
    \/ ReusePublished
    \/ ShowPliQuery
    \/ ShowPliRow
    \/ GetSkeletons
    \/ GetCustom
    \/ GetDois
    \/ Remember

SpecSections == Init /\ [][NextSections]_vars

\* requests with every key up to MaxKeyLen, followed through validation and
\* normalization (run_search lines 991-1006 without the step-1 lookup)
NextValidate ==
    \/ NewRequest(Keys)
    \/ RunSearchValidate
    \/ AfterRequest

SpecValidate == Init /\ [][NextValidate]_vars

\* ------------------------------------------------------------------ claims
HasItem(h, kind, table) ==
    \E i \in 1..Len(h) : h[i].kind = kind /\ h[i].table = table

\* a document-store or wide-column call of this request raised
CallRaised == \E i \in 1..Len(calls) : calls[i].out = "raise"

\* a call to `table` of this request returned records
Returned(table) ==
    \E i \in 1..Len(calls) : calls[i].table = table /\ calls[i].out = "rows"

\* C1: a Body ID whose record exists in emBody only (no neuronMetadata, no
\* publishedURL, no skeletons, no custom annotations, no DOI record) ends with a
\* success report holding exactly the emBody section, no asset-check entry and
\* no DOI section, and never with an error report.
C1_BodyOnlyReport ==
    (/\ pc = "done" /\ stype = "Body ID"
     /\ HasItem(html, "section", "emBody")
     /\ HasItem(html, "notfound", "neuronMetadata")
     /\ HasItem(html, "notfound", "publishedURL")
     /\ ~Returned(SkeletonsTable) /\ ~Returned(CustomTable) /\ ~Returned(DoiTable)
     /\ ~CallRaised)
    => /\ result.kind = "report"
       /\ \A i \in 1..Len(result.html) :
            /\ result.html[i].kind = "section" => result.html[i].table = "emBody"
            /\ result.html[i].kind # "s3files"

\* C2: a store call that raises, at whatever step and for whatever key type, is
\* the last store call of the request, and the request ends with the error report.
C2_StoreErrorAborts ==
    \A i \in 1..Len(calls) :
        calls[i].out = "raise"
        => /\ i = Len(calls)
           /\ pc = "done"
           /\ result.kind = "error"

\* C3: when the neuronMetadata lookup (step 3) raises, the request ends with the
\* error report, the report names step 3, and it carries none of the items
\* steps 1 and 2 produced.
C3_Step3ErrorNamesStep ==
    \A i \in 1..Len(calls) :
        (calls[i].step = 3 /\ calls[i].out = "raise")
        => /\ i = Len(calls)
           /\ pc = "done"
           /\ result.kind = "error"
           /\ result.step = 3
           /\ result.html = <<>>

C3_Witness ==
    /\ \E i \in 1..Len(calls) : calls[i].step = 3 /\ calls[i].out = "raise"
    /\ \E j \in 1..Len(html) : html[j].kind = "section"
    /\ result.kind = "error"

\* the step whose check_s3 call filled the asset section of `table`
SectionStep(table) == IF table = "publishedURL" THEN 4 ELSE 5

\* how often the pair (file type, key) is referenced, probed, reported
RefCount(sec, r) == Cardinality({i \in 1..Len(sec.refs) : sec.refs[i] = r})
ProbesOf(sec, r) ==
    {i \in 1..Len(probes) : /\ probes[i].step = SectionStep(sec.table)
                            /\ probes[i].ftype = r.ftype
                            /\ probes[i].key = PlusToSpace(r.key)}
EntriesOf(sec, r) ==
    {i \in 1..Len(sec.body) : sec.body[i].ftype = r.ftype /\ sec.body[i].key = r.key}

\* the entries of the pair reflect the outcome of its probe
Reflects(sec, r) ==
    \A i \in EntriesOf(sec, r) : \A j \in ProbesOf(sec, r) :
        sec.body[i].status = ProbeStatus(probes[j].outcome)

\* C4 (as claimed): a pair referenced by two records processed with the same
\* cache is probed once and has two result entries, both with the probe's outcome.
C4_TwoEntries ==
    \A j \in 1..Len(html) :
        html[j].kind = "s3files" =>
            \A k \in 1..Len(html[j].refs) :
                RefCount(html[j], html[j].refs[k]) = 2
                => /\ Cardinality(ProbesOf(html[j], html[j].refs[k])) = 1
                   /\ Cardinality(EntriesOf(html[j], html[j].refs[k])) = 2
                   /\ Reflects(html[j], html[j].refs[k])

\* C4 (amended): a pair referenced by two records processed with the same cache
\* is probed once and has one result entry, with the probe's outcome.
C4_OneEntry ==
    \A j \in 1..Len(html) :
        html[j].kind = "s3files" =>
            \A k \in 1..Len(html[j].refs) :
                RefCount(html[j], html[j].refs[k]) >= 2
                => /\ Cardinality(ProbesOf(html[j], html[j].refs[k])) = 1
                   /\ Cardinality(EntriesOf(html[j], html[j].refs[k])) = 1
                   /\ Reflects(html[j], html[j].refs[k])

C4_Witness ==
    \E j \in 1..Len(html) :
        /\ html[j].kind = "s3files"
        /\ \E k \in 1..Len(html[j].refs) : RefCount(html[j], html[j].refs[k]) = 2

\* the catalog returned several versions and the snapshot table was queried
SeveralVersions(i) ==
    /\ calls[i].op = "distinct" /\ calls[i].out = "rows"
    /\ Len(calls[i].ret) > 1
    /\ i < Len(calls)

\* C5 (as claimed): with no version requested and several versions in the
\* catalog, the version resolved is the first in the catalog's iteration order.
C5_FirstVersion ==
    \A i \in 1..Len(calls) :
        SeveralVersions(i) => calls[i + 1].table = PublishedTable(calls[i].ret[1])

\* C5 (amended): with no version requested and several versions in the catalog,
\* the version resolved is the last in the catalog's iteration order.
C5_LastVersion ==
    \A i \in 1..Len(calls) :
        SeveralVersions(i)
        => calls[i + 1].table = PublishedTable(calls[i].ret[Len(calls[i].ret)])

C5_Witness ==
    \E i \in 1..Len(calls) : SeveralVersions(i) /\ calls[i].ret = <<"v2", "v1">>

Validated == pc \notin {"idle", "validate"}
HasNonDigit(k) == \E i \in 1..Len(k) : k[i] \notin Digits
HasDigit(k) == \E i \in 1..Len(k) : k[i] \in Digits

\* C6: for Sample and Body ID the request ends with the 'Invalid <type>' error
\* exactly when the key holds a character that is no digit.
C6_NumericTypes ==
    (Validated /\ stype \in {"Sample", "Body ID"})
    => (result.kind = "invalid" <=> HasNonDigit(rawkey))

C6_Witness ==
    /\ stype = "Sample" /\ result.kind = "invalid"
    /\ HasDigit(rawkey) /\ HasNonDigit(rawkey)

\* C7: for Publishing name, Slide code, Neuron type and Neuron instance the
\* request ends with the 'Invalid <type>' error exactly when the key is all digits.
C7_NameTypes ==
    (Validated /\ stype \in {"Publishing name", "Slide code", "Neuron type",
                             "Neuron instance"})
    => (result.kind = "invalid" <=> ~HasNonDigit(rawkey))

C7_Witness ==
    /\ stype = "Neuron instance" /\ pc = "step1"
    /\ HasDigit(rawkey) /\ HasNonDigit(rawkey)

LowerCase == {"a"}
\* `k` is `raw` in upper case
IsUpperOf(k, raw) ==
    /\ Len(k) = Len(raw)
    /\ \A i \in 1..Len(k) : k[i] \notin LowerCase /\ CharLower(k[i]) = CharLower(raw[i])

\* C8: a slide code that passed validation is held in upper case, normalizing
\* it again changes neither its value nor its validation outcome, and a key of
\* any other type is held as received.
C8_SlideCodeUpper ==
    pc \in {"step1", "step2"}
    => IF stype = "Slide code"
       THEN /\ IsUpperOf(key, rawkey)
            /\ NormalizeKey(stype, key) = key
            /\ InvalidKey(stype, key) = InvalidKey(stype, rawkey)
       ELSE key = rawkey

C8_Witness ==
    /\ pc = "step2" /\ stype = "Slide code"
    /\ key # rawkey /\ HasDigit(rawkey)

\* C9: for Neuron type and Neuron instance a step-1 snapshot lookup that returns
\* no record does not halt the resolution: the request goes on to steps 2 and 3
\* and ends with a report.
C9_EmptySnapshotGoesOn ==
    \A i \in 1..Len(calls) :
        (calls[i].step = 1 /\ calls[i].field = "searchKey" /\ calls[i].out = "none")
        => (pc = "done" => result.kind = "report")

\* C10: a probe that fails, in whatever way, is recorded in the report with its
\* outcome, and the request still ends with the success report.
C10_ProbeFailureRecorded ==
    (pc = "done" /\ ~CallRaised)
    => \A i \in 1..Len(probes) :
          /\ result.kind = "report"
          /\ \E j \in 1..Len(result.html) :
                /\ result.html[j].kind = "s3files"
                /\ SectionStep(result.html[j].table) = probes[i].step
                /\ \E e \in 1..Len(result.html[j].body) :
                      /\ result.html[j].body[e].ftype = probes[i].ftype
                      /\ PlusToSpace(result.html[j].body[e].key) = probes[i].key
                      /\ result.html[j].body[e].status = ProbeStatus(probes[i].outcome)

\* a report came back for the key type of the report kept earlier
SecondReport ==
    /\ pc = "done" /\ result.kind = "report"
    /\ seen # NoneSeen /\ seen.stype = stype

\* C11 (as claimed): two reports for the same key type hold the same sections,
\* whichever stores returned rows.
C11_SameSections ==
    SecondReport => SectionSet(result.html) = seen.sections

\* C11 (amended): two reports for the same key type come from queries of the
\* same document-store collections, whichever of them returned rows.
C11_SameCollections ==
    SecondReport => Queried(calls) = seen.queried

C11_Witness ==
    /\ SecondReport
    /\ SectionSet(result.html) # seen.sections
    /\ \E i \in 1..Len(calls) : calls[i].out = "none"

\* C12: for a Sample key the sample collection is queried by the numeric _id,
\* and image, publishedURL and publishedLMImage are queried for the reference
\* "Sample#" followed by the key exactly.
C12_SampleReference ==
    stype = "Sample" =>
        \A i \in 1..Len(calls) :
            /\ calls[i].table = "sample"
               => /\ calls[i].field = "_id"
                  /\ calls[i].value = IntOf(rawkey)
            /\ calls[i].table \in {"image", "publishedURL", "publishedLMImage"}
               => /\ calls[i].field = "sampleRef"
                  /\ calls[i].op = "eq"
                  /\ calls[i].value = <<"Sample#">> \o rawkey

C12_Witness ==
    /\ stype = "Sample"
    /\ \A t \in {"sample", "image", "publishedURL", "publishedLMImage"} :
          \E i \in 1..Len(calls) : calls[i].table = t

\* the version resolver has returned to published_query
Resolved == pq.pc \in {"find", "table", "done"}

\* C13: the version resolver returns the empty version on an empty catalog, the
\* catalog's version on a catalog of one whatever version the caller passed, and
\* the caller's explicit version unchanged on a catalog of several.
C13_VersionResolution ==
    Resolved =>
        /\ pq.versions = <<>> => pq.ver = ""
        /\ Len(pq.versions) = 1 => pq.ver = pq.versions[1]
        /\ (Len(pq.versions) > 1 /\ pq.arg # "") => pq.ver = pq.arg

C13_Witness ==
    /\ Resolved
    /\ Len(pq.versions) = 1 /\ pq.arg = "v9" /\ pq.ver = "v1"

\* the alpsRelease values of the publishedURL records, in the order returned
PurlReleases(h) ==
    LET j == CHOOSE j \in 1..Len(h) : h[j].kind = "section" /\ h[j].table = "publishedURL"
    IN [i \in 1..Len(h[j].body) |-> h[j].body[i].alpsRelease]

RECURSIVE FirstNonEmpty(_)
\* the first value that is present and not '' (None when there is none)
FirstNonEmpty(rels) ==
    IF rels = <<>> THEN NoneVal
    ELSE IF Head(rels) \notin {Absent, ""} THEN Head(rels)
    ELSE FirstNonEmpty(Tail(rels))

\* C14: the release captured by the publishedURL lookup is the first non-empty
\* release over the returned records in order; a record whose release is
\* present but empty does not keep a later record's release from being captured.
C14_FirstNonEmptyRelease ==
    HasItem(html, "section", "publishedURL")
    => LET first == FirstNonEmpty(PurlReleases(html))
       IN first # NoneVal => release = first

\* the publishedLMImage section of the page, once show_pli has returned
PliSection(h) ==
    h[CHOOSE j \in 1..Len(h) : h[j].kind = "section" /\ h[j].table = "publishedLMImage"]

\* step 5 has returned with a non-empty resolved release
CrossChecked ==
    /\ HasItem(html, "section", "publishedLMImage")
    /\ release \notin {NoneVal, ""}

\* C15 (as claimed): for Publishing name, Sample and Slide code and a non-empty
\* resolved release, every publishedLMImage record whose release differs from
\* it is flagged, and as many rows are reported as the store returned.
C15_AllFlyLightFlagged ==
    (CrossChecked /\ stype \in {"Publishing name", "Sample", "Slide code"})
    => LET sec == PliSection(html)
       IN /\ Len(sec.body) = sec.n
          /\ \A i \in 1..Len(sec.body) :
                sec.body[i].releaseName # release => sec.body[i].flagged

\* C15 (amended): for Sample and Slide code and a non-empty resolved release,
\* exactly the publishedLMImage records whose release differs from it are
\* flagged; for Publishing name no record is flagged; in every case as many
\* rows are reported as the store returned.
C15_SampleSlideFlagged ==
    HasItem(html, "section", "publishedLMImage")
    => LET sec == PliSection(html)
       IN /\ Len(sec.body) = sec.n
          /\ \A i \in 1..Len(sec.body) :
                sec.body[i].flagged <=>
                    /\ stype \in {"Sample", "Slide code"}
                    /\ release \notin {NoneVal, ""}
                    /\ sec.body[i].releaseName # release

C15_Witness ==
    /\ CrossChecked
    /\ stype = "Sample"
    /\ \E i \in 1..Len(PliSection(html).body) :
          /\ PliSection(html).body[i].releaseName # release
          /\ PliSection(html).body[i].flagged

\* C16: within one request the published-stacks table is queried at most once
\* for each (slide code, objective, alignment space) triple, whether or not the
\* query for the triple returned a record.
C16_StacksOncePerTriple ==
    \A i, j \in 1..Len(calls) :
        (/\ i # j
         /\ calls[i].table = StacksTable
         /\ calls[j].table = StacksTable)
        => calls[i].value # calls[j].value

\* C17: within one request no (file type, storage key) pair is probed more
\* than once, also when a publishedURL record (step 4) and a publishedLMImage
\* record (step 5) both name it; and a request starts with no probe result and
\* no cache entry of an earlier request.
C17_ProbedOncePerRequest ==
    /\ \A i, j \in 1..Len(probes) :
          i # j => ~(/\ probes[i].ftype = probes[j].ftype
                     /\ probes[i].key = probes[j].key)
    /\ pc \in {"idle", "validate"} => (probes = <<>> /\ loc = NoLoc)

\* the publishedName values of the publishedURL records, in the order returned
PurlNames(h) ==
    IF HasItem(h, "section", "publishedURL")
    THEN LET j == CHOOSE j \in 1..Len(h) :
                     h[j].kind = "section" /\ h[j].table = "publishedURL"
         IN [i \in 1..Len(h[j].body) |-> h[j].body[i].publishedName]
    ELSE <<>>

RECURSIVE FirstOccurrences(_, _)
\* the values of `names` not in `had`, each once, in the order they first occur
FirstOccurrences(names, had) ==
    IF names = <<>> THEN <<>>
    ELSE IF Head(names) \in had THEN FirstOccurrences(Tail(names), had)
    ELSE <<Head(names)>> \o FirstOccurrences(Tail(names), had \cup {Head(names)})

\* the names the DOI table was asked for, in the order of the queries
DoiQueries ==
    LET idx == {i \in 1..Len(calls) : calls[i].table = DoiTable}
        f[n \in 0..Len(calls)] ==
            IF n = 0 THEN <<>>
            ELSE IF n \in idx THEN Append(f[n - 1], calls[n].value) ELSE f[n - 1]
    IN f[Len(calls)]

\* C18: a request that ends with a report has queried the DOI table exactly
\* once for each distinct publishing name step 4 discovered, in the order of
\* first discovery; it has issued no DOI query when step 4 discovered no name
\* or when the key type is Neuron type or Neuron instance.
C18_DoiPerName ==
    /\ (pc = "done" /\ result.kind = "report")
       => /\ stype \in NeuronTypes => DoiQueries = <<>>
          /\ stype \notin NeuronTypes
             => DoiQueries = FirstOccurrences(PurlNames(html), {})
    /\ DoiQueries # <<>> => (pc \in {"done"} /\ stype \notin NeuronTypes)

C18_Witness ==
    /\ pc = "done" /\ result.kind = "report"
    /\ Len(PurlNames(html)) = 2
    /\ PurlNames(html)[1] = PurlNames(html)[2]
    /\ Len(DoiQueries) = 1

\* the stores of the pipeline of a key type, in the order of its steps
PipelineOrder(st) ==
    CASE st \in {"Publishing name", "Sample", "Slide code"} ->
            <<{"sample"}, {"image"}, {"neuronMetadata"}, {"publishedURL"},
              {"publishedLMImage", StacksTable}, {DoiTable}>>
      [] st = "Body ID" ->
            <<{"emBody"}, {"neuronMetadata"}, {"publishedURL"}, {SkeletonsTable},
              {CustomTable}, {DoiTable}>>
      [] OTHER ->
            <<{"ddb_published_versioned", PublishedTable("v1"), PublishedTable("v2"),
               PublishedTable("")}, {"emBody"}, {"neuronMetadata"}>>

\* the place of a store in the pipeline of the key type (0: not part of it)
Place(st, table) ==
    LET o == PipelineOrder(st)
    IN IF \E n \in 1..Len(o) : table \in o[n]
       THEN CHOOSE n \in 1..Len(o) : table \in o[n]
       ELSE 0

\* stores that are queried more than once by design: one stacks query per
\* record, one DOI query per name, the catalog and then the snapshot
Repeatable == {StacksTable, DoiTable}

\* C19: the store calls of a request follow the order of the pipeline of its
\* key type, each call made only after the one before it has ended: sample,
\* image, neuronMetadata, publishedURL, publishedLMImage with its probes and
\* stacks lookups, DOI for the fly-light types; emBody, neuronMetadata,
\* publishedURL, skeletons, custom annotations, DOI for Body ID; versioned
\* snapshot, emBody, neuronMetadata and no publishedURL query for the neuron types.
C19_PipelineOrder ==
    /\ \A i \in 1..Len(calls) : Place(stype, calls[i].table) > 0
    /\ \A i, j \in 1..Len(calls) :
          i < j => /\ Place(stype, calls[i].table) <= Place(stype, calls[j].table)
                   /\ (calls[i].table = calls[j].table /\ Place(stype, calls[i].table) > 1)
                      => calls[i].table \in Repeatable
                   /\ calls[j].table = "publishedLMImage" => calls[i].table # StacksTable
    /\ \A i \in 1..Len(calls) :
          (i < Len(calls) /\ calls[i].out = "raise") => calls[i].step = 1
    /\ \A k \in 1..Len(probes) :
          /\ probes[k].step = 4 => \E i \in 1..Len(calls) : calls[i].table = "publishedURL"
          /\ probes[k].step = 5 => \E i \in 1..Len(calls) : calls[i].table = "publishedLMImage"

C19_Witness ==
    /\ pc = "done" /\ result.kind = "report" /\ stype = "Slide code"
    /\ \A t \in {"sample", "image", "neuronMetadata", "publishedURL",
                 "publishedLMImage", StacksTable, DoiTable} :
          \E i \in 1..Len(calls) : calls[i].table = t
    /\ \E k \in 1..Len(probes) : probes[k].step = 5

\* the field of a neuron-type / neuron-instance key
NeuronField(st) == IF st = "Neuron instance" THEN "neuronInstance" ELSE "neuronType"

\* C20: for Neuron instance the emBody query is an exact match on the
\* neuron-instance field and for Neuron type on the neuron-type field, and the
\* neuronMetadata query makes the same choice of field.
C20_NeuronField ==
    stype \in {"Neuron type", "Neuron instance"} =>
        \A i \in 1..Len(calls) :
            calls[i].table \in {"emBody", "neuronMetadata"}
            => /\ calls[i].field = NeuronField(stype)
               /\ calls[i].op = "eq"

\* C21: a request whose key is rejected as invalid for its key type has issued
\* no call to the document store, the wide-column store or object storage:
\* validation comes before every store access, the step-1 lookup included.
C21_ValidationFirst ==
    /\ pc = "validate" => (calls = <<>> /\ probes = <<>>)
    /\ result.kind = "invalid" => (calls = <<>> /\ probes = <<>>)

C21_Witness ==
    /\ result.kind = "invalid"
    /\ stype = "Neuron type"
    /\ pc = "done"

\* C22: whatever connection attempts failed in earlier requests, a request
\* that before_request lets through to its handler finds both document-store
\* connections and both wide-column handles present; a wide-column connection
\* that failed on one request is attempted again on the next.
C22_HandlesPresent ==
    br.pc = "handler"
    => /\ {"jacs", "neuronbridge"} \subseteq DB
       /\ {"client", "resource"} \subseteq DYNAMO

====
